---- MODULE Spec2Model ----
(***************************************************************************)
(* A model of tracxn_server.py: the tool dispatcher call_tool, the query   *)
(* builders, the upstream client tracxn_api_call and the response          *)
(* normalizers.  One tool invocation is a small state machine: call_tool   *)
(* builds the request and suspends at the await of the upstream client;    *)
(* the upstream answers; the handler resumes, and either issues another    *)
(* upstream call or returns its text payload.  Two invocations may be in   *)
(* flight in the event loop: the one that runs, and one that is parked at  *)
(* an await (or not yet started, or returned).                             *)
(*                                                                         *)
(* Python values are modelled as follows.  A dict is a function whose      *)
(* DOMAIN is the set of its keys (an absent key is absent from DOMAIN).    *)
(* A list is a sequence.  A string is a TLA+ string, except the domain     *)
(* argument of company_lookup, which is a sequence of characters so that   *)
(* lower(), strip(), startswith() and slicing are computed.  An optional   *)
(* number (a value or None) is a sequence of length 0 or 1.  The null of   *)
(* an upstream JSON body is the value Null.                                *)
(***************************************************************************)
EXTENDS Integers, Sequences, FiniteSets, TLC

VARIABLES
    token,      \* TRUE iff TRACXN_ACCESS_TOKEN is set and non-empty
    pc,         \* "ready" | "awaiting" | "done": position of the invocation
    name,       \* the tool name given to call_tool (or the function called)
    arguments,  \* the arguments dict given to call_tool
    frame,      \* the locals of the suspended handler
    calls,      \* the tracxn_api_call / debug_api_call invocations, in order
    posts,      \* the HTTP POSTs that reached the network, in order
    replies,    \* the upstream outcomes received, in order
    entry,      \* "call_tool", or "funded_companies" for a direct call of it
    output,     \* the text payload the invocation returned
    parked      \* a second invocation, suspended while this one runs

vars ==
    <<token, pc, entry, name, arguments, frame, calls, posts, replies, output, parked>>

(***************************************************************************)
(* Bounds of the model.                                                    *)
(***************************************************************************)
MaxArgs == 2        \* number of arguments supplied in one invocation
MaxItems == 1       \* length of the result list of an upstream body
MaxParts == 3       \* number of pieces a domain input is made of
MaxCompanies == 3   \* length of the company list funded_companies fetches
BigLimit == 1000    \* a very large limit argument

(***************************************************************************)
(* Python helpers.                                                         *)
(***************************************************************************)
Min(a, b) == IF a <= b THEN a ELSE b
Max(a, b) == IF a >= b THEN a ELSE b

\* key in d
Has(d, k) == k \in DOMAIN d

\* d.get(k, default)
Get(d, k, default) == IF k \in DOMAIN d THEN d[k] ELSE default

\* d[k] = v on a copy of d
Put(d, k, v) == (k :> v) @@ d

\* the empty dict {}
EmptyDict == [k \in {} |-> 0]

\* the JSON null of an upstream body, None once parsed
Null == [null |-> TRUE]

\* "k in arguments and arguments[k]" for a string argument
Truthy(d, k) == Has(d, k) /\ d[k] # ""

\* PySliceTo that keeps the whole list
PySliceToWhole(seq, n) == seq

\* seq[:n] with Python's meaning of a negative n
PySliceTo(seq, n) ==
    IF n >= 0 THEN SubSeq(seq, 1, Min(n, Len(seq)))
    ELSE SubSeq(seq, 1, Max(Len(seq) + n, 0))

\* seq[n:] for n >= 0
PySliceFrom(seq, n) == SubSeq(seq, Min(n, Len(seq)) + 1, Len(seq))

(***************************************************************************)
(* Argument maps: every dict over the keys of vals that holds at most      *)
(* MaxArgs keys, each key bound to one of its values.                      *)
(***************************************************************************)
RECURSIVE Prod(_, _)
Prod(vals, K) ==
    IF K = {} THEN {EmptyDict}
    ELSE LET k == CHOOSE kk \in K : TRUE
         IN  {Put(f, k, v) : v \in vals[k], f \in Prod(vals, K \ {k})}

ArgMaps(vals) ==
    UNION {Prod(vals, K) : K \in {S \in SUBSET DOMAIN vals : Cardinality(S) <= MaxArgs}}

LimitValues == {0 - BigLimit, -2, 0, 3, 20, 21, BigLimit}
OffsetValues == {-4, 0, 10}
TextValues == {"", "x"}
AmountValues == {1000}

(***************************************************************************)
(* The upstream: what one HTTP POST can come back with.                    *)
(*   [status |-> 200, body |-> b]      a JSON object b                     *)
(*   [status |-> 200, exception |-> m] a body response.json() cannot parse *)
(*   [status |-> s, text |-> t]        any other status, with its raw text *)
(*   [exception |-> m]                 the POST itself raised              *)
(***************************************************************************)
Items ==
    {EmptyDict,
     [name |-> "Acme", domain |-> "acme.com", location |-> [country |-> "US"]],
     [name |-> "Acme", location |-> EmptyDict,
      businessModelList |-> <<[name |-> "SaaS"], [name |-> "B2B"]>>],
     [name |-> "Acme", location |-> Null]}

\* the result items of the endpoints other than companies, of which the
\* projection reads the name and the domain
ListedItems == {EmptyDict, [name |-> "Acme", domain |-> "acme.com"]}

RECURSIVE SeqsUpTo(_, _)
SeqsUpTo(S, n) ==
    IF n = 0 THEN {<<>>}
    ELSE LET shorter == SeqsUpTo(S, n - 1)
         IN  shorter \cup {Append(q, x) : q \in {r \in shorter : Len(r) = n - 1}, x \in S}

TotalCounts == {30, 57}

BodiesOver(lists) ==
    LET withResult == {[result |-> l] : l \in lists} \cup {EmptyDict}
    IN  withResult \cup {Put(b, "total_count", t) : b \in withResult, t \in TotalCounts}

\* raw response texts and exception messages; the second of each mentions
\* the word the domain lookup searches the error for
ErrorTexts == {"Bad Request", "Invalid filter: domain must be a string"}
ExceptionTexts == {"Connection reset by peer", "Cannot resolve domain name"}
DomainTexts == {"Invalid filter: domain must be a string", "Cannot resolve domain name"}

ErrorOutcomes ==
    {[status |-> 429, text |-> "Too Many Requests"]}
        \cup {[status |-> 400, text |-> t] : t \in ErrorTexts}
        \cup {[exception |-> m] : m \in ExceptionTexts}
        \cup {[status |-> 200, exception |-> "Expecting value: line 1 column 1 (char 0)",
              text |-> "<html>"]}

\* a body answered with status 200 that holds a top-level "error" key beside
\* its result
FlaggedBody ==
    [error |-> "partial results",
     result |-> <<[name |-> "Acme", domain |-> "acme.com"]>>]

OutcomesOver(lists) ==
    {[status |-> 200, body |-> b] : b \in BodiesOver(lists) \cup {FlaggedBody}}
        \cup ErrorOutcomes

(***************************************************************************)
(* tracxn_api_call: the classification of one upstream outcome.            *)
(***************************************************************************)
RateLimitText == "Tracxn API rate limit exceeded. Please try again later."
NoTokenText == "TRACXN_ACCESS_TOKEN environment variable is not set"

\* tracxn_api_call without the branch for status 429
tracxn_api_call_no_429(hasToken, outcome) ==
    IF ~hasToken THEN [error |-> NoTokenText]
    ELSE IF Has(outcome, "exception")
        THEN [error |-> "API call failed: " \o outcome.exception]
    ELSE IF outcome.status = 200 THEN outcome.body
    ELSE [error |-> "API returned status code " \o ToString(outcome.status)
                        \o ": " \o outcome.text]

\* tracxn_api_call without the check of the access token
tracxn_api_call_no_token_check(hasToken, outcome) ==
    IF Has(outcome, "exception")
        THEN [error |-> "API call failed: " \o outcome.exception]
    ELSE IF outcome.status = 200 THEN outcome.body
    ELSE IF outcome.status = 429 THEN [error |-> RateLimitText]
    ELSE [error |-> "API returned status code " \o ToString(outcome.status)
                        \o ": " \o outcome.text]

\* tracxn_api_call that reports the status code without the response text
tracxn_api_call_status_only(hasToken, outcome) ==
    IF ~hasToken THEN [error |-> NoTokenText]
    ELSE IF Has(outcome, "exception")
        THEN [error |-> "API call failed: " \o outcome.exception]
    ELSE IF outcome.status = 200 THEN outcome.body
    ELSE IF outcome.status = 429 THEN [error |-> RateLimitText]
    ELSE [error |-> "API returned status code " \o ToString(outcome.status)]

tracxn_api_call(hasToken, outcome) ==
    IF ~hasToken THEN [error |-> NoTokenText]
    ELSE IF Has(outcome, "exception")
        THEN [error |-> "API call failed: " \o outcome.exception]
    ELSE IF outcome.status = 200 THEN outcome.body
    ELSE IF outcome.status = 429 THEN [error |-> RateLimitText]
    ELSE [error |-> "API returned status code " \o ToString(outcome.status)
                        \o ": " \o outcome.text]

\* "domain" in str(result["error"]), over the error strings the client builds
\* (none of its fixed texts contains the word)
DomainInError(err) ==
    \E t \in DomainTexts :
        \/ err = "API call failed: " \o t
        \/ \E o \in ErrorOutcomes :
              /\ Has(o, "status") /\ Has(o, "text") /\ o.text = t
              /\ err = "API returned status code " \o ToString(o.status) \o ": " \o t

(***************************************************************************)
(* Query builders: the request each branch of call_tool builds.            *)
(***************************************************************************)
valid_sectors == {"Cybersecurity", "Fintech", "Enterprise Infrastructure", "Cloud Infrastructure"}

\* filter[key] = [arguments[arg]] when the argument is present and truthy
AddListFilter(filter, args, arg, key) ==
    IF Truthy(args, arg) THEN Put(filter, key, <<args[arg]>>) ELSE filter

\* AddRangeFilter that takes one bound for a range
AddRangeFilterEitherBound(filter, args, lo, hi, key) ==
    IF Has(args, lo) \/ Has(args, hi)
    THEN Put(filter, key, [min |-> Get(args, lo, 0), max |-> Get(args, hi, 0)])
    ELSE filter

\* filter[key] = {"min": ..., "max": ...} when both arguments are present
AddRangeFilter(filter, args, lo, hi, key) ==
    IF Has(args, lo) /\ Has(args, hi)
    THEN Put(filter, key, [min |-> args[lo], max |-> args[hi]])
    ELSE filter

\* AddSort in the form of the transactions family
AddSortAsField(request_data, args) ==
    IF Truthy(args, "sort_by")
    THEN Put(Put(request_data, "sortField", args.sort_by),
             "sortOrder", Get(args, "sort_order", "desc"))
    ELSE request_data

\* request_data["sort"] = [{sort_by: sort_order}] when sort_by is truthy
AddSort(request_data, args) ==
    IF Truthy(args, "sort_by")
    THEN Put(request_data, "sort", <<(args.sort_by :> Get(args, "sort_order", "desc"))>>)
    ELSE request_data

\* the cap of the limit argument
CapLimit(args) == Min(Get(args, "limit", 5), 20)

\* FloorOffset without the floor
FloorOffsetUnfloored(args, key) == Get(args, key, 0)

\* the floor of the from / offset argument
FloorOffset(args, key) == Max(Get(args, key, 0), 0)

\* SearchCompaniesSector without the allow-list
SearchCompaniesSectorUnchecked(args) == Get(args, "sector", "Cybersecurity")

SearchCompaniesSector(args) ==
    LET sector == Get(args, "sector", "Cybersecurity")
    IN  IF sector \in valid_sectors THEN sector ELSE "Cybersecurity"

SearchCompaniesRequest(args) ==
    LET f0 == [feedName |-> <<SearchCompaniesSector(args)>>]
        f1 == AddListFilter(f0, args, "country", "country")
        f2 == AddListFilter(f1, args, "city", "city")
        f3 == AddListFilter(f2, args, "founded_year", "foundedYear")
        f4 == AddRangeFilter(f3, args, "min_funding", "max_funding", "totalMoneyRaised")
    IN  AddSort([filter |-> f4, size |-> CapLimit(args), from |-> FloorOffset(args, "from")],
                args)

FundedCompaniesToolRequest(args) ==
    LET f0 == [feedName |-> <<Get(args, "sector", "Cybersecurity")>>,
               totalMoneyRaised |-> [min |-> Get(args, "min_funding", 10000000),
                                     max |-> Get(args, "max_funding", 100000000)]]
        f1 == AddListFilter(f0, args, "country", "country")
    IN  AddSort([filter |-> f1, size |-> CapLimit(args), from |-> 0], args)

SearchTransactionsFilters(args) ==
    LET f1 == AddListFilter(EmptyDict, args, "sector", "feedName")
        f2 == AddListFilter(f1, args, "round_type", "transactionFundingRoundCategory")
        f3 == AddRangeFilter(f2, args, "start_date", "end_date", "transactionFundingRoundDate")
        f4 == AddRangeFilter(f3, args, "min_amount", "max_amount", "transactionFundingRoundAmount")
        f5 == IF Truthy(args, "investor_domain")
              THEN Put(f4, "transactionInvestor",
                       [transactionInstitutionalInvestorDomain |-> <<args.investor_domain>>])
              ELSE f4
    IN  AddListFilter(f5, args, "country", "country")

SearchInvestorsFilters(args) ==
    LET f1 == AddListFilter(EmptyDict, args, "investor_name", "investorDomainName")
        f2 == AddListFilter(f1, args, "investor_type", "investorType")
        f3 == AddListFilter(f2, args, "investor_country", "investorCountry")
        f4 == AddListFilter(f3, args, "portfolio_sector", "feedName")
    IN  IF Has(args, "min_investment_score")
        THEN Put(f4, "tracxnInvestmentScore", [min |-> args.min_investment_score])
        ELSE f4

SearchAcquisitionsFilters(args) ==
    LET f1 == AddListFilter(EmptyDict, args, "acquisition_type", "acquisitionType")
        f2 == AddRangeFilter(f1, args, "start_date", "end_date", "announcementDate")
        f3 == AddListFilter(f2, args, "acquirer_domain", "acquirerListDomain")
        f4 == AddListFilter(f3, args, "sector", "feedName")
        f5 == AddRangeFilter(f4, args, "min_amount", "max_amount", "acquisitionAmount")
    IN  AddListFilter(f5, args, "country", "country")

\* request_data["filter"] = filters when filters is non-empty
WithFilter(request_data, filters) ==
    IF filters # EmptyDict THEN Put(request_data, "filter", filters) ELSE request_data

\* the request search_transactions and search_acquisitions build
\* (sort_by "" stands for a falsy sort_by)
SortFieldRequest(filters, sort_by, sort_order, limit, offset, defaultField) ==
    WithFilter([size |-> Min(limit, 20), from |-> offset,
                sortField |-> IF sort_by # "" THEN sort_by ELSE defaultField,
                sortOrder |-> sort_order], filters)

SearchTransactionsRequest(args) ==
    SortFieldRequest(SearchTransactionsFilters(args),
                     Get(args, "sort_by", "transactionFundingRoundDate"),
                     Get(args, "sort_order", "desc"),
                     CapLimit(args), FloorOffset(args, "offset"),
                     "transactionFundingRoundDate")

SearchAcquisitionsRequest(args) ==
    SortFieldRequest(SearchAcquisitionsFilters(args),
                     Get(args, "sort_by", "announcementDate"),
                     Get(args, "sort_order", "desc"),
                     CapLimit(args), FloorOffset(args, "offset"),
                     "announcementDate")

\* the request search_investors builds; call_tool passes sort_by None
SearchInvestorsRequest(args) ==
    WithFilter([size |-> Min(CapLimit(args), 20), from |-> FloorOffset(args, "offset")],
               SearchInvestorsFilters(args))

\* filters of the taxonomy searches: name, primary_geography and ids
\* ("" stands for None, <<>> for the None of ids)
TaxonomyFilters(args, withGeography) ==
    LET f1 == AddListFilter(EmptyDict, args, "name", "name")
        f2 == IF withGeography
              THEN AddListFilter(f1, args, "primary_geography", "primaryGeography")
              ELSE f1
    IN  AddListFilter(f2, args, "id", "id")

TaxonomyRequest(args, withGeography) ==
    WithFilter([size |-> Min(CapLimit(args), 20), from |-> FloorOffset(args, "offset")],
               TaxonomyFilters(args, withGeography))

SearchCompaniesByNameRequest(args) == [filter |-> [companyName |-> args.company_name]]

(***************************************************************************)
(* company_lookup: the cleaning of the domain argument.  A domain is a     *)
(* sequence of characters.                                                 *)
(***************************************************************************)
StrHttp == <<"h", "t", "t", "p", ":", "/", "/">>
StrHttps == <<"h", "t", "t", "p", "s", ":", "/", "/">>
StrHttpsUpper == <<"H", "T", "T", "P", "S", ":", "/", "/">>
StrWww == <<"w", "w", "w", ".">>
StrSpace == <<" ">>
StrHost == <<"E", "x", ".", "C", "o">>
StrHostLower == <<"e", "x", ".", "c", "o">>

\* str.lower() of one character, over the letters the inputs use
LowerChar(c) ==
    CASE c = "H" -> "h" [] c = "T" -> "t" [] c = "P" -> "p" [] c = "S" -> "s"
      [] c = "W" -> "w" [] c = "E" -> "e" [] c = "C" -> "c" [] OTHER -> c

Lower(str) == [i \in 1..Len(str) |-> LowerChar(str[i])]

IsSpace(c) == c = " "

RECURSIVE LStrip(_)
LStrip(str) ==
    IF str # <<>> /\ IsSpace(Head(str)) THEN LStrip(Tail(str)) ELSE str

RECURSIVE RStrip(_)
RStrip(str) ==
    IF str # <<>> /\ IsSpace(str[Len(str)]) THEN RStrip(SubSeq(str, 1, Len(str) - 1)) ELSE str

Strip(str) == RStrip(LStrip(str))

StartsWith(str, prefix) ==
    Len(str) >= Len(prefix) /\ SubSeq(str, 1, Len(prefix)) = prefix

\* if s.startswith(prefix): s = s[len(prefix):]
DropPrefix(str, prefix) ==
    IF StartsWith(str, prefix) THEN PySliceFrom(str, Len(prefix)) ELSE str

\* DomainClean without lower()
DomainCleanCaseKept(domain) ==
    LET d0 == Strip(domain)
        d1 == DropPrefix(d0, StrHttp)
        d2 == DropPrefix(d1, StrHttps)
    IN  DropPrefix(d2, StrWww)

\* DomainClean that drops the www. label before the scheme
DomainCleanLabelFirst(domain) ==
    LET d0 == Strip(Lower(domain))
        d1 == DropPrefix(d0, StrWww)
        d2 == DropPrefix(d1, StrHttp)
    IN  DropPrefix(d2, StrHttps)

DomainClean(domain) ==
    LET d0 == Strip(Lower(domain))
        d1 == DropPrefix(d0, StrHttp)
        d2 == DropPrefix(d1, StrHttps)
    IN  DropPrefix(d2, StrWww)

\* the first request of company_lookup: the domain as a one-element list
CompanyLookupRequest(domain_clean) ==
    [filter |-> [domain |-> [list |-> <<domain_clean>>]], size |-> 1]

\* CompanyLookupRetryRequest that sends the list again
CompanyLookupRetryRequestAsList(domain_clean) ==
    [filter |-> [domain |-> [list |-> <<domain_clean>>]], size |-> 1]

\* the second request: the domain as a string
CompanyLookupRetryRequest(domain_clean) ==
    [filter |-> [domain |-> [str |-> domain_clean]], size |-> 1]

DomainPieces == {StrHttp, StrHttps, StrHttpsUpper, StrWww, StrSpace, StrHost}

RECURSIVE Concat(_)
Concat(parts) == IF parts = <<>> THEN <<>> ELSE Head(parts) \o Concat(Tail(parts))

DomainInputs == {Concat(parts) : parts \in SeqsUpTo(DomainPieces, MaxParts)}

(***************************************************************************)
(* Response normalizers.  A returned payload is                            *)
(*   [kind |-> "text", text |-> s, ...]  a plain text, or                  *)
(*   [kind |-> "json", doc |-> d]        a JSON document.                  *)
(*   [kind |-> "exception", type |-> t]  nothing: an exception of type t   *)
(*                                       left the handler.                 *)
(* The projection of a result item is modelled on its name and domain,     *)
(* and for a company on the country of its location and on the list of    *)
(* its business models.                                                    *)
(***************************************************************************)
Text(str) == [kind |-> "text", text |-> str]
Json(doc) == [kind |-> "json", doc |-> doc]

Map(seq, Op(_)) == [i \in 1..Len(seq) |-> Op(seq[i])]

Raise(type) == [kind |-> "exception", type |-> type]

\* company.get("location", {}).get("country", "N/A") on a location that is
\* None: 'NoneType' object has no attribute 'get'
LocationRaises(company) == Has(company, "location") /\ company.location = Null

\* some company of the list makes the projection raise
AnyLocationRaises(companies) == \E i \in 1..Len(companies) : LocationRaises(companies[i])

(***************************************************************************)
(* list(set(...)): the order in which a set of strings is listed follows   *)
(* the hashes of the strings, which depend on the hash seed of the process *)
(* (random at each start unless PYTHONHASHSEED is set).  Two seeds stand   *)
(* for two processes that list a set in opposite orders.                   *)
(***************************************************************************)
HashSeeds == {0, 1}

RECURSIVE SetToSeq(_)
SetToSeq(S) ==
    IF S = {} THEN <<>>
    ELSE LET x == CHOOSE y \in S : TRUE
         IN  <<x>> \o SetToSeq(S \ {x})

Reverse(seq) == [i \in 1..Len(seq) |-> seq[Len(seq) + 1 - i]]

\* list(S) for a set S of strings, in a process with the given hash seed
ListOfSet(S, seed) == IF seed = 0 THEN SetToSeq(S) ELSE Reverse(SetToSeq(S))

\* list(set(model.get("name", "N/A") for model in
\*          company.get("businessModelList", [])))[:5]
BusinessModels(company, seed) ==
    LET models == Get(company, "businessModelList", <<>>)
        names == {Get(models[i], "name", "N/A") : i \in 1..Len(models)}
    IN  PySliceTo(ListOfSet(names, seed), 5)

FormatCompany(company, seed) ==
    [name |-> Get(company, "name", "Unknown"),
     domain |-> Get(company, "domain", "N/A"),
     location |-> [country |-> Get(Get(company, "location", EmptyDict), "country", "N/A")],
     business_models |-> BusinessModels(company, seed)]

\* the projection of search_companies_by_name
FormatNameMatch(company) ==
    [name |-> Get(company, "name", "Unknown"), domain |-> Get(company, "domain", "N/A")]

FormatItem(item) ==
    [name |-> Get(item, "name", "N/A"), domain |-> Get(item, "domain", "N/A")]

\* HasMore with >= for >
HasMoreOrEqual(request_data, result) ==
    Get(result, "total_count", 0) >= Get(request_data, "from", 0) + Get(request_data, "size", 0)

\* result.get("total_count", 0) > request_data.get("from", 0) + request_data.get("size", 0)
HasMore(request_data, result) ==
    Get(result, "total_count", 0) > Get(request_data, "from", 0) + Get(request_data, "size", 0)

Pagination(request_data, result) ==
    [from |-> Get(request_data, "from", 0),
     size |-> Get(request_data, "size", 0),
     has_more |-> HasMore(request_data, result)]

\* the JSON document of a paginated listing
ListingDoc(request_data, result, items) ==
    [total_count |-> Get(result, "total_count", 0),
     items |-> items,
     filters_applied |-> Get(request_data, "filter", EmptyDict),
     pagination |-> Pagination(request_data, result)]

\* the same, with the "sort" key the companies, transactions, investors and
\* acquisitions documents carry
SortedListingDoc(request_data, result, items) ==
    Put(ListingDoc(request_data, result, items), "sort", Get(request_data, "sort", <<>>))

search_companies_with_filters(request_data, result, seed) ==
    IF Has(result, "error") THEN Text("Error retrieving companies: " \o result.error)
    ELSE IF Get(result, "result", <<>>) = <<>>
        THEN Text("No companies found matching the criteria")
    ELSE IF AnyLocationRaises(result.result) THEN Raise("AttributeError")
    ELSE Json(SortedListingDoc(request_data, result,
                               [i \in 1..Len(result.result) |->
                                   FormatCompany(result.result[i], seed)]))

search_transactions(request_data, result) ==
    IF Has(result, "error") THEN Text("Error retrieving transactions: " \o result.error)
    ELSE IF Get(result, "result", <<>>) = <<>>
        THEN Text("No transactions found matching the criteria")
    ELSE Json(SortedListingDoc(request_data, result, Map(result.result, FormatItem)))

search_investors(request_data, result) ==
    IF Has(result, "error") THEN Text("Error retrieving investors: " \o result.error)
    ELSE IF Get(result, "result", <<>>) = <<>>
        THEN Text("No investors found matching the criteria")
    ELSE Json(SortedListingDoc(request_data, result, Map(result.result, FormatItem)))

search_acquisitions(request_data, result) ==
    IF Has(result, "error") THEN Text("Error retrieving acquisitions: " \o result.error)
    ELSE IF Get(result, "result", <<>>) = <<>>
        THEN Text("No acquisitions found matching the criteria")
    ELSE Json(SortedListingDoc(request_data, result, Map(result.result, FormatItem)))

search_practice_areas(request_data, result) ==
    IF Has(result, "error") THEN Text("Error retrieving practice areas: " \o result.error)
    ELSE IF Get(result, "result", <<>>) = <<>>
        THEN Text("No practice areas found matching the criteria")
    ELSE Json(ListingDoc(request_data, result, Map(result.result, FormatItem)))

search_feeds(request_data, result) ==
    IF Has(result, "error") THEN Text("Error retrieving feeds: " \o result.error)
    ELSE IF Get(result, "result", <<>>) = <<>>
        THEN Text("No feeds found matching the criteria")
    ELSE Json(ListingDoc(request_data, result, Map(result.result, FormatItem)))

search_business_models(request_data, result) ==
    IF Has(result, "error") THEN Text("Error retrieving business models: " \o result.error)
    ELSE IF Get(result, "result", <<>>) = <<>>
        THEN Text("No business models found matching the criteria")
    ELSE Json(ListingDoc(request_data, result, Map(result.result, FormatItem)))

search_companies_by_name(company_name, result) ==
    IF Has(result, "error") THEN Text("Error searching for company: " \o result.error)
    ELSE IF Get(result, "result", <<>>) = <<>>
        THEN Text("No companies found matching name: " \o company_name)
    ELSE Json([companies |-> Map(result.result, FormatNameMatch),
               search_term |-> company_name,
               count |-> Len(result.result)])

\* company_lookup after its last upstream call
company_lookup(domain_clean, result, seed) ==
    IF Has(result, "error")
        THEN Text("Error retrieving company information: " \o result.error)
    ELSE IF Get(result, "result", <<>>) = <<>>
        THEN [kind |-> "text", text |-> "No company found with domain ",
              domain |-> domain_clean]
    ELSE IF LocationRaises(result.result[1]) THEN Raise("AttributeError")
    ELSE Json(FormatCompany(result.result[1], seed))

\* CompanyLookupRetries that tries again after any error
CompanyLookupRetriesOnAnyError(result) == Has(result, "error")

\* company_lookup: is the second attempt made after this first result?
CompanyLookupRetries(result) == Has(result, "error") /\ DomainInError(result.error)

(***************************************************************************)
(* funded_companies, the function: a sector page fetched from upstream,    *)
(* filtered and sorted locally.                                            *)
(***************************************************************************)
FundedCompaniesRequest(sector, limit) ==
    [filter |-> [feedName |-> <<sector>>], size |-> Min(100, limit * 5), from |-> 0]

\* a or b, on numbers
OrElse(a, b) == IF a # 0 THEN a ELSE b

\* funding_amount of one company: <<>> is None, <<v>> a value
FundingAmount(company) ==
    LET equity_funding == Get(company, "totalEquityFunding", EmptyDict)
        usd_data == Get(Get(equity_funding, "amount", EmptyDict), "USD", EmptyDict)
        first == IF equity_funding # EmptyDict /\ Has(usd_data, "value")
                 THEN <<usd_data.value>> ELSE <<>>
    IN  IF first = <<>>
        THEN <<OrElse(Get(Get(company, "funding", EmptyDict), "amount", 0),
                      OrElse(Get(company, "totalFunding", 0),
                             Get(company, "fundingAmount", 0)))>>
        ELSE first

\* funding_amount and min_funding <= funding_amount <= max_funding
FundingKept(company, min_funding, max_funding) ==
    LET funding_amount == FundingAmount(company)
    IN  /\ funding_amount # <<>>
        /\ funding_amount[1] # 0
        /\ min_funding <= funding_amount[1]
        /\ funding_amount[1] <= max_funding

FundedEntry(company) ==
    [name |-> Get(company, "name", "Unknown"),
     domain |-> Get(company, "domain", "N/A"),
     total_funding |-> FundingAmount(company)[1]]

TopEntry(company) ==
    [name |-> Get(company, "name", "Unknown"),
     domain |-> Get(company, "domain", "N/A"),
     note |-> "Funding information not available"]

RECURSIVE FilterFunded(_, _, _)
FilterFunded(all_companies, min_funding, max_funding) ==
    IF all_companies = <<>> THEN <<>>
    ELSE LET rest == FilterFunded(Tail(all_companies), min_funding, max_funding)
         IN  IF FundingKept(Head(all_companies), min_funding, max_funding)
             THEN <<FundedEntry(Head(all_companies))>> \o rest
             ELSE rest

\* SortByFundingDesc that leaves the list as it is
SortByFundingSkipped(seq) == seq

\* list.sort(key=total_funding, reverse=True): descending and stable
RECURSIVE SortByFundingDesc(_)
SortByFundingDesc(seq) ==
    IF seq = <<>> THEN <<>>
    ELSE LET rest == SortByFundingDesc(SubSeq(seq, 1, Len(seq) - 1))
             x == seq[Len(seq)]
             n == Cardinality({i \in 1..Len(rest) : rest[i].total_funding >= x.total_funding})
         IN  SubSeq(rest, 1, n) \o <<x>> \o SubSeq(rest, n + 1, Len(rest))

\* the sorted, truncated list of the companies in range
FilteredCompanies(all_companies, min_funding, max_funding, limit) ==
    PySliceTo(SortByFundingDesc(FilterFunded(all_companies, min_funding, max_funding)), limit)

\* funded_companies after its upstream call; p holds its parameters
funded_companies(p, request_data, result) ==
    IF Has(result, "error")
    THEN [kind |-> "text",
          text |-> "Error retrieving " \o p.sector \o " companies: " \o result.error,
          request_data |-> request_data]
    ELSE LET all_companies == Get(result, "result", <<>>)
             filtered_companies ==
                 FilteredCompanies(all_companies, p.min_funding, p.max_funding, p.limit)
         IN  IF filtered_companies = <<>> /\ all_companies # <<>>
             THEN Json([note |-> "Couldn't find companies matching the funding criteria. Showing top companies regardless of funding.",
                        sector |-> p.sector,
                        funding_criteria |-> [min |-> p.min_funding, max |-> p.max_funding],
                        companies |-> Map(PySliceTo(all_companies, p.limit), TopEntry)])
             ELSE Json([total_found |-> Len(filtered_companies),
                        sector |-> p.sector,
                        funding_criteria |-> [min |-> p.min_funding, max |-> p.max_funding],
                        companies |-> filtered_companies])

\* the inputs of funded_companies
EquityFunding(v) == [amount |-> [USD |-> [value |-> v]]]

FundingShapes ==
    {EmptyDict,
     [totalEquityFunding |-> EquityFunding(0)],
     [totalEquityFunding |-> EquityFunding(20)],
     [totalEquityFunding |-> EquityFunding(60)],
     [totalEquityFunding |-> EquityFunding(200)],
     [totalEquityFunding |-> [amount |-> EmptyDict], totalFunding |-> 40],
     [funding |-> [amount |-> 30]]}

CompanyNames == <<"c1", "c2", "c3", "c4", "c5">>

\* company lists: the i-th company is named CompanyNames[i]
CompanyLists ==
    {[i \in 1..Len(shapes) |-> Put(shapes[i], "name", CompanyNames[i])] :
        shapes \in SeqsUpTo(FundingShapes, MaxCompanies)}

FundingRanges == {[min |-> 0, max |-> 100], [min |-> 10, max |-> 100]}
FundedLimits == {-1, 0, 1, 2, 5}

(***************************************************************************)
(* diagnose_api_request: the original request, then its variations.        *)
(***************************************************************************)
\* the sortField / sortOrder variation of a request that has a sort list
SortVariation(request_data) ==
    LET sort_item == IF request_data.sort # <<>> THEN request_data.sort[1] ELSE EmptyDict
        sort_field == IF sort_item # EmptyDict
                      THEN CHOOSE k \in DOMAIN sort_item : TRUE
                      ELSE "defaultSortField"
        sort_order == Get(sort_item, sort_field, "desc")
        added == Put(Put(request_data, "sortField", sort_field), "sortOrder", sort_order)
    IN  [k \in DOMAIN added \ {"sort"} |-> added[k]]

\* the variation with filter.domain swapped between list and string
DomainVariation(request_data) ==
    LET domain_value == request_data.filter.domain
        swapped == IF Has(domain_value, "list")
                   THEN [str |-> IF domain_value.list # <<>> THEN domain_value.list[1] ELSE <<>>]
                   ELSE [list |-> <<domain_value.str>>]
    IN  Put(request_data, "filter", Put(request_data.filter, "domain", swapped))

DomainVariationText(request_data) ==
    IF Has(request_data.filter.domain, "list")
    THEN "Converted 'domain' from list to string"
    ELSE "Converted 'domain' from string to list"

\* The values of a request body that are objects of their own (a dict, a
\* list) sit under these keys; a copy of the body either holds the same
\* objects as the original or objects of its own.
ContainerKeys(request_data) == DOMAIN request_data \cap {"filter", "sort"}

\* request_data.copy(): a new dict whose values are the objects of the original
ShallowCopyShares(request_data) == ContainerKeys(request_data)

\* copy.deepcopy(request_data): no object of the original is in the copy
DeepCopyShares(request_data) == {}

\* the keys under which the sort variation holds objects of the original:
\* made with request_data.copy(), its sort key deleted
SortVariationShares(request_data) == ShallowCopyShares(request_data) \ {"sort"}

\* DomainVariationShares of a variation made with request_data.copy()
DomainVariationSharesShallow(request_data) == ShallowCopyShares(request_data)

\* the keys under which the domain variation holds objects of the original:
\* made with copy.deepcopy(request_data)
DomainVariationShares(request_data) == DeepCopyShares(request_data)

\* DiagnoseVariations with the domain variation tried first
DiagnoseVariationsDomainFirst(request_data) ==
    (IF Has(request_data, "filter") /\ Has(request_data.filter, "domain")
     THEN <<[description |-> DomainVariationText(request_data),
             data |-> DomainVariation(request_data),
             shares |-> DomainVariationShares(request_data),
             writes |-> {"filter"}]>>
     ELSE <<>>)
    \o
    (IF Has(request_data, "sort") /\ ~Has(request_data, "sortField")
     THEN <<[description |-> "Converted 'sort' array to 'sortField' and 'sortOrder'",
             data |-> SortVariation(request_data),
             shares |-> SortVariationShares(request_data),
             writes |-> {}]>>
     ELSE <<>>)

\* the variations tried after a failed original request, in order; writes
\* are the keys under which the variation assigns inside the object it
\* holds (variation["filter"]["domain"] = ...)
DiagnoseVariations(request_data) ==
    (IF Has(request_data, "sort") /\ ~Has(request_data, "sortField")
     THEN <<[description |-> "Converted 'sort' array to 'sortField' and 'sortOrder'",
             data |-> SortVariation(request_data),
             shares |-> SortVariationShares(request_data),
             writes |-> {}]>>
     ELSE <<>>)
    \o
    (IF Has(request_data, "filter") /\ Has(request_data.filter, "domain")
     THEN <<[description |-> DomainVariationText(request_data),
             data |-> DomainVariation(request_data),
             shares |-> DomainVariationShares(request_data),
             writes |-> {"filter"}]>>
     ELSE <<>>)

\* a dict after the objects under the keys were assigned into through
\* another dict that holds the same objects
WrittenThrough(data, keys, source) ==
    [k \in DOMAIN data |-> IF k \in keys /\ Has(source, k) THEN source[k] ELSE data[k]]

\* the caller's request after a variation was built: an assignment inside an
\* object the variation shares with it is an assignment inside the request
RequestAfter(request_data, variation) ==
    WrittenThrough(request_data, variation.writes \cap variation.shares, variation.data)

\* a variation built earlier after a later one was built: the objects both
\* share with the request are the same objects
EarlierAfter(earlier, variation) ==
    [earlier EXCEPT !.data =
        WrittenThrough(@, variation.writes \cap variation.shares \cap earlier.shares,
                       variation.data)]

\* one entry of results["variations"] as json.dumps writes it
VariationEntry(variation) ==
    [description |-> variation.description, data |-> variation.data,
     result |-> variation.result]

DiagnoseBodies ==
    {[filter |-> [feedName |-> <<"Cybersecurity">>], size |-> 1],
     [filter |-> [feedName |-> <<"Cybersecurity">>], size |-> 50, from |-> -1],
     [filter |-> [feedName |-> <<"Cybersecurity">>], sort |-> <<[foundedYear |-> "asc"]>>],
     [filter |-> [feedName |-> <<"Cybersecurity">>], sort |-> <<>>],
     [sort |-> <<[foundedYear |-> "asc"]>>, sortField |-> "foundedYear"],
     [filter |-> [domain |-> [list |-> <<StrHostLower>>]], size |-> 1],
     [filter |-> [domain |-> [list |-> <<>>]], size |-> 1],
     [filter |-> [domain |-> [str |-> StrHostLower]], size |-> 1],
     [filter |-> [domain |-> [list |-> <<StrHostLower>>]],
      sort |-> <<[foundedYear |-> "asc"]>>, size |-> 1]}

(***************************************************************************)
(* debug_api_call: its own POST, reported with the request.                *)
(***************************************************************************)
DebugDefaultData == [filter |-> [feedName |-> <<"Cybersecurity">>], size |-> 1]

debug_api_call(hasToken, endpoint, data, outcome) ==
    IF ~hasToken THEN [error |-> NoTokenText]
    ELSE IF ~Has(outcome, "status")
        THEN [request |-> [endpoint |-> endpoint, data |-> data],
              response |-> [error |-> "Exception: " \o outcome.exception]]
    ELSE IF outcome.status = 200
        THEN [request |-> [endpoint |-> endpoint, data |-> data],
              response |-> [status_code |-> 200,
                            body |-> IF Has(outcome, "body") THEN outcome.body
                                     ELSE outcome.text]]
    ELSE [request |-> [endpoint |-> endpoint, data |-> data],
          response |-> [status_code |-> outcome.status, error |-> outcome.text]]

(***************************************************************************)
(* The arguments each tool is invoked with.                                *)
(***************************************************************************)
SearchCompaniesArgs ==
    [sector |-> valid_sectors \cup {"Biotech", ""},
     limit |-> LimitValues, from |-> OffsetValues,
     country |-> TextValues, city |-> TextValues, founded_year |-> {"", "2020"},
     min_funding |-> AmountValues, max_funding |-> AmountValues,
     sort_by |-> {"", "foundedYear"}, sort_order |-> {"asc", "desc"}]

CompanyLookupArgs == [domain |-> DomainInputs]

FundedCompaniesArgs ==
    [min_funding |-> AmountValues, max_funding |-> AmountValues,
     sector |-> {"Fintech", "Biotech"}, limit |-> LimitValues,
     sort_by |-> {"", "totalMoneyRaised"}, sort_order |-> {"asc"},
     country |-> TextValues]

DebugApiCallArgs == [endpoint |-> {"transactions"}, data |-> {[size |-> 1]}]

SearchCompaniesByNameArgs == [company_name |-> {"", "Apple", "Stripe"}]

SearchTransactionsArgs ==
    [sector |-> TextValues, round_type |-> TextValues,
     min_amount |-> AmountValues, max_amount |-> AmountValues,
     start_date |-> {"", "01/01/2020"}, end_date |-> {"31/12/2020"},
     investor_domain |-> TextValues, country |-> TextValues,
     limit |-> LimitValues, offset |-> OffsetValues,
     sort_by |-> {"", "transactionFundingRoundAmount"}, sort_order |-> {"asc"}]

SearchInvestorsArgs ==
    [investor_name |-> TextValues, investor_type |-> TextValues,
     investor_country |-> TextValues, portfolio_sector |-> TextValues,
     limit |-> LimitValues, offset |-> OffsetValues,
     min_investment_score |-> {0, 50}]

SearchAcquisitionsArgs ==
    [acquisition_type |-> TextValues, start_date |-> {"01/01/2020"},
     end_date |-> {"31/12/2020"}, acquirer_domain |-> TextValues,
     sector |-> TextValues, min_amount |-> AmountValues, max_amount |-> AmountValues,
     country |-> TextValues, limit |-> LimitValues, offset |-> OffsetValues,
     sort_by |-> {"", "acquisitiontransactionNormalizedAmount"}, sort_order |-> {"asc"}]

TaxonomyArgs ==
    [name |-> TextValues, id |-> {"", "id1"}, limit |-> LimitValues, offset |-> OffsetValues]

SearchFeedsArgs ==
    [name |-> TextValues, primary_geography |-> {"", "Global"}, id |-> {"", "id1"},
     limit |-> LimitValues, offset |-> OffsetValues]

DiagnoseArgs == [endpoint |-> {"", "companies"}, request_data |-> DiagnoseBodies \cup {EmptyDict}]

ToolNames ==
    {"search_companies", "company_lookup", "funded_companies", "debug_api_call",
     "search_companies_by_name", "search_transactions", "search_investors",
     "search_acquisitions", "search_practice_areas", "search_feeds",
     "search_business_models", "diagnose_api_request"}

\* the "required" list of the inputSchema of each tool
RequiredArguments(tool) ==
    CASE tool = "search_companies" -> {"sector"}
      [] tool = "company_lookup" -> {"domain"}
      [] tool = "funded_companies" -> {"min_funding", "max_funding"}
      [] tool = "search_companies_by_name" -> {"company_name"}
      [] tool = "diagnose_api_request" -> {"endpoint", "request_data"}
      [] OTHER -> {}

UnknownToolNames == {"search_company", "Search_Companies", ""}

\* UnknownToolText that does not name the tool
UnknownToolTextUnnamed(tool) == "Error: Unknown tool"

\* f"Error: Unknown tool '{name}'"
UnknownToolText(tool) == "Error: Unknown tool '" \o tool \o "'"

(***************************************************************************)
(* The state machine.                                                      *)
(***************************************************************************)
NoOutput == [kind |-> "none"]

\* the locals and the log of an invocation that has not started
NotStarted ==
    [pc |-> "ready", entry |-> "none", name |-> "", arguments |-> EmptyDict,
     frame |-> EmptyDict, calls |-> <<>>, posts |-> <<>>, replies |-> <<>>,
     output |-> NoOutput]

Init ==
    /\ parked = NotStarted
    /\ token \in BOOLEAN
    /\ pc = "ready"
    /\ entry = "none"
    /\ name = ""
    /\ arguments = EmptyDict
    /\ frame = EmptyDict
    /\ calls = <<>>
    /\ posts = <<>>
    /\ replies = <<>>
    /\ output = NoOutput

\* call_tool is entered with a tool name and its arguments
Enter(tool, args) ==
    /\ pc = "ready"
    /\ entry' = "call_tool"
    /\ name' = tool
    /\ arguments' = args
    /\ UNCHANGED <<token, posts, replies, parked>>

\* the handler awaits tracxn_api_call(endpoint, data)
Await(f, endpoint, data) ==
    /\ pc' = "awaiting"
    /\ frame' = f
    /\ calls' = Append(calls, [endpoint |-> endpoint, data |-> data])
    /\ output' = output

\* the handler returns its payload
Return(f, out) ==
    /\ pc' = "done"
    /\ frame' = f
    /\ calls' = calls
    /\ output' = out

\* a handler that builds one request and normalizes its result
AwaitListing(fn, endpoint, request_data) ==
    Await([fn |-> fn, request_data |-> request_data], endpoint, request_data)

CallSearchCompanies ==
    /\ pc = "ready"
    /\ \E args \in ArgMaps(SearchCompaniesArgs) :
        /\ Enter("search_companies", args)
        /\ AwaitListing("search_companies_with_filters", "companies",
                        SearchCompaniesRequest(args))

CallCompanyLookup ==
    /\ pc = "ready"
    /\ \E args \in ArgMaps(CompanyLookupArgs) :
        /\ Enter("company_lookup", args)
        /\ IF Get(args, "domain", <<>>) = <<>>
           THEN Return(EmptyDict, Text("Error: domain is required"))
           ELSE LET domain_clean == DomainClean(args.domain)
                IN  Await([fn |-> "company_lookup", attempt |-> 1,
                           domain_clean |-> domain_clean],
                          "companies", CompanyLookupRequest(domain_clean))

CallFundedCompanies ==
    /\ pc = "ready"
    /\ \E args \in ArgMaps(FundedCompaniesArgs) :
        /\ Enter("funded_companies", args)
        /\ AwaitListing("search_companies_with_filters", "companies",
                        FundedCompaniesToolRequest(args))

CallDebugApiCall ==
    /\ pc = "ready"
    /\ \E args \in ArgMaps(DebugApiCallArgs) :
        /\ Enter("debug_api_call", args)
        /\ LET endpoint == Get(args, "endpoint", "companies")
               data == Get(args, "data", DebugDefaultData)
           IN  Await([fn |-> "debug_api_call", endpoint |-> endpoint, data |-> data],
                     endpoint, data)

CallSearchCompaniesByName ==
    /\ pc = "ready"
    /\ \E args \in ArgMaps(SearchCompaniesByNameArgs) :
        /\ Enter("search_companies_by_name", args)
        /\ IF Get(args, "company_name", "") = ""
           THEN Return(EmptyDict, Text("Error: company_name is required"))
           ELSE Await([fn |-> "search_companies_by_name",
                       company_name |-> args.company_name],
                      "companies/search", SearchCompaniesByNameRequest(args))

CallSearchTransactions ==
    /\ pc = "ready"
    /\ \E args \in ArgMaps(SearchTransactionsArgs) :
        /\ Enter("search_transactions", args)
        /\ AwaitListing("search_transactions", "transactions",
                        SearchTransactionsRequest(args))

CallSearchInvestors ==
    /\ pc = "ready"
    /\ \E args \in ArgMaps(SearchInvestorsArgs) :
        /\ Enter("search_investors", args)
        /\ AwaitListing("search_investors", "investors", SearchInvestorsRequest(args))

CallSearchAcquisitions ==
    /\ pc = "ready"
    /\ \E args \in ArgMaps(SearchAcquisitionsArgs) :
        /\ Enter("search_acquisitions", args)
        /\ AwaitListing("search_acquisitions", "acquisitiontransactions",
                        SearchAcquisitionsRequest(args))

CallSearchPracticeAreas ==
    /\ pc = "ready"
    /\ \E args \in ArgMaps(TaxonomyArgs) :
        /\ Enter("search_practice_areas", args)
        /\ AwaitListing("search_practice_areas", "practiceareas",
                        TaxonomyRequest(args, FALSE))

CallSearchFeeds ==
    /\ pc = "ready"
    /\ \E args \in ArgMaps(SearchFeedsArgs) :
        /\ Enter("search_feeds", args)
        /\ AwaitListing("search_feeds", "feeds", TaxonomyRequest(args, TRUE))

\* BusinessModelsRejected that takes an empty string for a given filter
BusinessModelsRejectedAbsentOnly(args) == ~Has(args, "name") /\ ~Has(args, "id")

\* not name_param and not id_param ("" stands for None)
BusinessModelsRejected(args) == Get(args, "name", "") = "" /\ Get(args, "id", "") = ""

CallSearchBusinessModels ==
    /\ pc = "ready"
    /\ \E args \in ArgMaps(TaxonomyArgs) :
        /\ Enter("search_business_models", args)
        /\ IF BusinessModelsRejected(args)
           THEN Return(EmptyDict,
                       Text("Error: At least one of 'name' or 'id' is required for business model search"))
           ELSE IF TaxonomyFilters(args, FALSE) = EmptyDict
           THEN Return(EmptyDict,
                       Text("Error: Business Model API requires at least one filter (name or id)"))
           ELSE AwaitListing("search_business_models", "businessmodels",
                             TaxonomyRequest(args, FALSE))

CallDiagnoseApiRequest ==
    /\ pc = "ready"
    /\ \E args \in ArgMaps(DiagnoseArgs) :
        /\ Enter("diagnose_api_request", args)
        /\ IF Get(args, "endpoint", "") = "" \/ Get(args, "request_data", EmptyDict) = EmptyDict
           THEN Return(EmptyDict, Text("Error: Both endpoint and request_data are required"))
           ELSE Await([fn |-> "diagnose_api_request", endpoint |-> args.endpoint,
                       request_data |-> args.request_data, stage |-> 0,
                       variations |-> <<>>],
                      args.endpoint, args.request_data)

CallUnknownTool ==
    /\ pc = "ready"
    /\ \E tool \in UnknownToolNames, args \in {EmptyDict, [limit |-> 3]} :
        /\ Enter(tool, args)
        /\ Return(EmptyDict, Text(UnknownToolText(tool)))

\* funded_companies called directly with its four parameters
CallFundedCompaniesFunction ==
    /\ pc = "ready"
    /\ \E range \in FundingRanges, limit \in FundedLimits :
        /\ entry' = "funded_companies"
        /\ name' = "funded_companies"
        /\ arguments' = [min_funding |-> range.min, max_funding |-> range.max,
                         sector |-> "Cybersecurity", limit |-> limit]
        /\ UNCHANGED <<token, posts, replies, parked>>
        /\ AwaitListing("funded_companies", "companies",
                        FundedCompaniesRequest("Cybersecurity", limit))

\* what the upstream can answer to the pending call of a handler
OutcomesFor(f) ==
    CASE f.fn = "funded_companies" ->
            {[status |-> 200, body |-> [result |-> l]] : l \in CompanyLists}
                \cup {[status |-> 200, body |-> b] : b \in {EmptyDict, FlaggedBody}}
                \cup ErrorOutcomes
      [] f.fn = "diagnose_api_request" -> OutcomesOver({<<>>})
      [] f.fn = "search_companies_with_filters" -> OutcomesOver(SeqsUpTo(Items, MaxItems))
      \* company_lookup asks for one company ("size": 1)
      [] f.fn = "company_lookup" -> OutcomesOver(SeqsUpTo(Items, 1))
      [] OTHER -> OutcomesOver(SeqsUpTo(ListedItems, MaxItems))

\* the companies of a result hold a list of two business models or more
ListsASet(result) ==
    /\ ~Has(result, "error")
    /\ \E i \in 1..Len(Get(result, "result", <<>>)) :
          Len(Get(result.result[i], "businessModelList", <<>>)) > 1

\* the hash seeds to tell apart for the result a handler resumes with: all
\* of them when the handler lists a set of it, one otherwise
SeedsFor(f, result) ==
    IF f.fn \in {"search_companies_with_filters", "company_lookup"} /\ ListsASet(result)
    THEN HashSeeds ELSE {0}

\* the handler resumed with the result of its pending tracxn_api_call:
\* [call |-> c, frame |-> f] when it awaits another call, [output |-> o,
\* frame |-> f] when it returns
Resume(f, result, seed) ==
    CASE f.fn = "search_companies_with_filters" ->
            [output |-> search_companies_with_filters(f.request_data, result, seed),
             frame |-> f]
      [] f.fn = "search_transactions" ->
            [output |-> search_transactions(f.request_data, result), frame |-> f]
      [] f.fn = "search_investors" ->
            [output |-> search_investors(f.request_data, result), frame |-> f]
      [] f.fn = "search_acquisitions" ->
            [output |-> search_acquisitions(f.request_data, result), frame |-> f]
      [] f.fn = "search_practice_areas" ->
            [output |-> search_practice_areas(f.request_data, result), frame |-> f]
      [] f.fn = "search_feeds" ->
            [output |-> search_feeds(f.request_data, result), frame |-> f]
      [] f.fn = "search_business_models" ->
            [output |-> search_business_models(f.request_data, result), frame |-> f]
      [] f.fn = "search_companies_by_name" ->
            [output |-> search_companies_by_name(f.company_name, result), frame |-> f]
      [] f.fn = "funded_companies" ->
            [output |-> funded_companies(arguments, f.request_data, result), frame |-> f]
      [] f.fn = "company_lookup" ->
            IF f.attempt = 1 /\ CompanyLookupRetries(result)
            THEN [call |-> [endpoint |-> "companies",
                            data |-> CompanyLookupRetryRequest(f.domain_clean)],
                  frame |-> [f EXCEPT !.attempt = 2]]
            ELSE [output |-> company_lookup(f.domain_clean, result, seed), frame |-> f]
      [] f.fn = "diagnose_api_request" ->
            LET todo == DiagnoseVariations(f.request_data)
                g == IF f.stage = 0
                     THEN Put(f, "original_result", result)
                     ELSE [f EXCEPT !.variations =
                               Append(@, Put(f.variation, "result", result))]
                more == Has(g.original_result, "error") /\ f.stage < Len(todo)
            IN  IF more
                THEN LET variation == todo[f.stage + 1]
                     IN  [call |-> [endpoint |-> f.endpoint, data |-> variation.data],
                          frame |-> [stage |-> f.stage + 1, variation |-> variation,
                                     request_data |-> RequestAfter(f.request_data, variation),
                                     variations |->
                                         [v \in 1..Len(g.variations) |->
                                             EarlierAfter(g.variations[v], variation)]]
                                    @@ g]
                ELSE [output |-> Json([original_request |->
                                           [data |-> g.request_data,
                                            result |-> g.original_result],
                                       variations |-> Map(g.variations, VariationEntry)]),
                      frame |-> g]

\* the pending tracxn_api_call returns and the handler runs on
TracxnApiCall ==
    /\ pc = "awaiting"
    /\ frame.fn # "debug_api_call"
    /\ \E outcome \in OutcomesFor(frame) :
       \E seed \in SeedsFor(frame, tracxn_api_call(token, outcome)) :
          LET step == Resume(frame, tracxn_api_call(token, outcome), seed)
          IN  /\ posts' = IF token THEN Append(posts, calls[Len(calls)]) ELSE posts
              /\ replies' = IF token THEN Append(replies, outcome) ELSE replies
              /\ IF Has(step, "call")
                 THEN Await(step.frame, step.call.endpoint, step.call.data)
                 ELSE Return(step.frame, step.output)
    /\ UNCHANGED <<token, entry, name, arguments, parked>>

\* the pending debug_api_call returns and call_tool returns its report
DebugApiCall ==
    /\ pc = "awaiting"
    /\ frame.fn = "debug_api_call"
    /\ \E outcome \in OutcomesOver({<<>>}) :
          /\ posts' = IF token THEN Append(posts, calls[Len(calls)]) ELSE posts
          /\ replies' = IF token THEN Append(replies, outcome) ELSE replies
          /\ Return(frame, Json(debug_api_call(token, frame.endpoint, frame.data, outcome)))
    /\ UNCHANGED <<token, entry, name, arguments, parked>>

Next ==
    \/ CallSearchCompanies
    \/ CallCompanyLookup
    \/ CallFundedCompanies
    \/ CallDebugApiCall
    \/ CallSearchCompaniesByName
    \/ CallSearchTransactions
    \/ CallSearchInvestors
    \/ CallSearchAcquisitions
    \/ CallSearchPracticeAreas
    \/ CallSearchFeeds
    \/ CallSearchBusinessModels
    \/ CallDiagnoseApiRequest
    \/ CallUnknownTool
    \/ CallFundedCompaniesFunction
    \/ TracxnApiCall
    \/ DebugApiCall

Spec == Init /\ [][Next]_vars

(***************************************************************************)
(* Two invocations in one event loop.  call_tool is a coroutine: its       *)
(* locals live in its own frame, and the event loop runs another coroutine *)
(* only while this one is suspended at the await of the upstream client,   *)
(* or after it returned.  The module holds no variable that a handler      *)
(* assigns; each upstream call opens a ClientSession of its own.           *)
(***************************************************************************)
\* the invocation that runs
Running ==
    [pc |-> pc, entry |-> entry, name |-> name, arguments |-> arguments,
     frame |-> frame, calls |-> calls, posts |-> posts, replies |-> replies,
     output |-> output]

\* Resumed for handlers that keep their locals in one module-level dict,
\* which holds what the last handler stored in it
ResumedOnSharedFrame(saved) ==
    [saved EXCEPT !.frame = IF frame = EmptyDict THEN @ ELSE frame]

\* the locals a coroutine finds when the event loop runs it again: its own
Resumed(saved) == saved

\* the event loop leaves the running invocation at its await (or after its
\* return) and runs the other one
Switch ==
    /\ pc \in {"awaiting", "done"}
    /\ parked.pc # "done"
    /\ LET resumed == Resumed(parked)
       IN  /\ pc' = resumed.pc
           /\ entry' = resumed.entry
           /\ name' = resumed.name
           /\ arguments' = resumed.arguments
           /\ frame' = resumed.frame
           /\ calls' = resumed.calls
           /\ posts' = resumed.posts
           /\ replies' = resumed.replies
           /\ output' = resumed.output
    /\ parked' = Running
    /\ UNCHANGED token

NextConcurrent ==
    \/ CallSearchCompaniesByName
    \/ CallUnknownTool
    \/ TracxnApiCall
    \/ Switch

SpecConcurrent == Init /\ [][NextConcurrent]_vars

(***************************************************************************)
(* Properties.                                                             *)
(***************************************************************************)
\* the tools whose request is built from a limit and a from / offset argument
PagedTools ==
    {"search_companies", "search_transactions", "search_investors", "search_acquisitions",
     "search_practice_areas", "search_feeds", "search_business_models"}

\* the tools that forward a caller-supplied request body as it is
RawBodyTools == {"diagnose_api_request", "debug_api_call"}

ViaCallTool == entry = "call_tool"

\* C1 (as claimed): whatever the limit argument, the size of every upstream
\* query a tool invocation issues is in 0..20.
C1_SizeInCap ==
    ViaCallTool /\ name \notin RawBodyTools =>
        \A i \in 1..Len(posts) :
            Has(posts[i].data, "size") =>
                posts[i].data.size >= 0 /\ posts[i].data.size <= 20

\* C2: whatever the from / offset argument, the from field of every upstream
\* query built by a tool is >= 0, and the paged tools always send one.
C2_FromNonNegative ==
    ViaCallTool /\ name \notin RawBodyTools =>
        \A i \in 1..Len(posts) :
            /\ name \in PagedTools => Has(posts[i].data, "from")
            /\ Has(posts[i].data, "from") => posts[i].data.from >= 0

\* a negative from / offset argument reached the upstream as 0
C2_Witness ==
    /\ ViaCallTool /\ name = "search_transactions"
    /\ Has(arguments, "offset") /\ arguments.offset < 0
    /\ Len(posts) = 1 /\ posts[1].data.from = 0

\* C3: search_companies sends filter.feedName = [sector] for a sector of the
\* allow-list and ["Cybersecurity"] for any other, and never rejects the
\* call: the upstream call is always made.
C3_SectorFallback ==
    ViaCallTool /\ name = "search_companies" =>
        /\ Len(calls) >= 1
        /\ LET sector == Get(arguments, "sector", "Cybersecurity")
               expected == IF sector \in {"Cybersecurity", "Fintech",
                                          "Enterprise Infrastructure", "Cloud Infrastructure"}
                           THEN sector ELSE "Cybersecurity"
           IN  \A i \in 1..Len(calls) : calls[i].data.filter.feedName = <<expected>>

\* a sector outside the allow-list was sent upstream as Cybersecurity
C3_Witness ==
    /\ ViaCallTool /\ name = "search_companies"
    /\ Has(arguments, "sector") /\ arguments.sector = "Biotech"
    /\ Len(posts) = 1 /\ posts[1].data.filter.feedName = <<"Cybersecurity">>
    /\ pc = "done" /\ output.kind = "json"

\* C4 (as claimed): the funded_companies tool sends a filter holding the
\* sector alone and asks for a page of min(100, limit * 5) companies.
C4_ToolSendsSectorOnly ==
    ViaCallTool /\ name = "funded_companies" =>
        \A i \in 1..Len(calls) :
            /\ DOMAIN calls[i].data.filter = {"feedName"}
            /\ calls[i].data.size = Min(100, Get(arguments, "limit", 5) * 5)

\* funded_companies, the function, has returned after an upstream answer
\* that holds a company list and no error
FundedDone ==
    /\ entry = "funded_companies" /\ pc = "done" /\ Len(replies) = 1
    /\ Has(replies[1], "body") /\ Has(replies[1].body, "result")
    /\ ~Has(replies[1].body, "error")

\* a company carries a funding field
HasFundingValue(company) ==
    DOMAIN company \cap {"totalEquityFunding", "funding", "totalFunding", "fundingAmount"} # {}

\* the positions of the fetched companies whose funding value is within
\* [min_funding, max_funding]; with nonzero, only values other than 0 count
InRangeIdx(fetched, nonzero) ==
    {i \in 1..Len(fetched) :
        /\ HasFundingValue(fetched[i])
        /\ arguments.min_funding <= FundingAmount(fetched[i])[1]
        /\ FundingAmount(fetched[i])[1] <= arguments.max_funding
        /\ nonzero => FundingAmount(fetched[i])[1] # 0}

DescendingFunding(companies) ==
    \A i, j \in 1..Len(companies) :
        i < j => companies[i].total_funding >= companies[j].total_funding

\* the statement of C5 over the returned document
FundedExact(nonzero) ==
    FundedDone =>
        LET fetched == replies[1].body.result
            idx == InRangeIdx(fetched, nonzero)
            k == Cardinality(idx)
            limit == arguments.limit
            doc == output.doc
            returned == {doc.companies[j].name : j \in 1..Len(doc.companies)}
        IN  /\ (k >= 1 /\ k <= limit) =>
                /\ Has(doc, "total_found") /\ doc.total_found = k
                /\ Len(doc.companies) = k
                /\ returned = {fetched[i].name : i \in idx}
                /\ DescendingFunding(doc.companies)
                /\ \A j \in 1..k : \E i \in idx :
                      /\ fetched[i].name = doc.companies[j].name
                      /\ FundingAmount(fetched[i])[1] = doc.companies[j].total_funding
            /\ (limit >= 1 /\ k > limit) =>
                /\ Has(doc, "total_found") /\ doc.total_found = limit
                /\ Len(doc.companies) = limit /\ Cardinality(returned) = limit
                /\ returned \subseteq {fetched[i].name : i \in idx}
                /\ DescendingFunding(doc.companies)
                /\ \A i \in idx : fetched[i].name \notin returned =>
                      \A j \in 1..limit :
                          FundingAmount(fetched[i])[1] <= doc.companies[j].total_funding

FundedFallback(limitAtLeastOne) ==
    (/\ FundedDone
     /\ replies[1].body.result # <<>>
     /\ InRangeIdx(replies[1].body.result, FALSE) = {}
     /\ limitAtLeastOne => arguments.limit >= 1) =>
        LET fetched == replies[1].body.result
            doc == output.doc
        IN  /\ Has(doc, "note")
            /\ doc.companies # <<>>
            /\ doc.companies =
                  [i \in 1..Min(arguments.limit, Len(fetched)) |->
                      [name |-> fetched[i].name, domain |-> "N/A",
                       note |-> "Funding information not available"]]

\* C6 (as claimed): when the upstream list is not empty and no company has
\* funding within the range, funded_companies returns the first limit
\* companies in upstream order, each with the note, never an empty result.
C6_AsClaimed == FundedFallback(FALSE)

\* C6 (amended): the same for a limit of at least 1.
C6_FundedFallback == FundedFallback(TRUE)

\* three companies fetched, none in range, the first two returned with the note
C6_Witness ==
    /\ FundedDone
    /\ Len(replies[1].body.result) = 3
    /\ InRangeIdx(replies[1].body.result, FALSE) = {}
    /\ arguments.limit = 2
    /\ Has(output.doc, "note")
    /\ Len(output.doc.companies) = 2
    /\ output.doc.companies[2].name = "c2"

\* C7: for a domain made of an optional scheme, an optional www. label and
\* a host in any letter case, the first query of company_lookup has
\* filter.domain = [the host in lower case].
C7_DomainNormalized ==
    ViaCallTool /\ name = "company_lookup" =>
        \A scheme \in {<<>>, StrHttp, StrHttps, StrHttpsUpper}, www \in {<<>>, StrWww} :
            Get(arguments, "domain", <<>>) = scheme \o www \o StrHost =>
                /\ Len(calls) >= 1
                /\ calls[1].endpoint = "companies"
                /\ calls[1].data.filter.domain = [list |-> <<StrHostLower>>]

\* an upper-case scheme, a www. label and a mixed-case host were sent as the
\* lower-case host
C7_Witness ==
    /\ ViaCallTool /\ name = "company_lookup"
    /\ Has(arguments, "domain")
    /\ arguments.domain = StrHttpsUpper \o StrWww \o StrHost
    /\ Len(posts) >= 1
    /\ posts[1].data.filter.domain = [list |-> <<StrHostLower>>]

\* C8: has_more of every returned document is total_count > from + size,
\* with from and size those of the query sent and total_count that of the
\* upstream body (0 when absent).
C8_HasMore ==
    (pc = "done" /\ output.kind = "json" /\ Has(output.doc, "pagination")) =>
        LET query == posts[Len(posts)].data
            body == replies[Len(replies)].body
            total_count == IF Has(body, "total_count") THEN body.total_count ELSE 0
        IN  /\ output.doc.pagination.from = query.from
            /\ output.doc.pagination.size = query.size
            /\ output.doc.pagination.has_more = (total_count > query.from + query.size)

\* total_count 30 with from 10 and size 20: has_more is false
C8_Witness ==
    /\ pc = "done" /\ output.kind = "json" /\ Has(output.doc, "pagination")
    /\ Len(replies) = 1 /\ Len(posts) = 1
    /\ Has(replies[1], "body") /\ Has(replies[1].body, "total_count")
    /\ replies[1].body.total_count = 30
    /\ posts[1].data.from = 10 /\ posts[1].data.size = 20
    /\ output.doc.pagination.has_more = FALSE

\* C9: search_business_models with neither a name nor an id returns the
\* validation error text and calls the upstream client not once.
C9_BusinessModelsValidation ==
    (/\ ViaCallTool /\ name = "search_business_models"
     /\ Get(arguments, "name", "") = "" /\ Get(arguments, "id", "") = "") =>
        /\ pc = "done"
        /\ output = Text("Error: At least one of 'name' or 'id' is required for business model search")
        /\ calls = <<>>
        /\ posts = <<>>

\* an empty name and no id were rejected without a call
C9_Witness ==
    /\ ViaCallTool /\ name = "search_business_models"
    /\ Has(arguments, "name") /\ arguments.name = "" /\ ~Has(arguments, "id")
    /\ pc = "done" /\ output.kind = "text" /\ calls = <<>>

\* the upstream answered HTTP 429
Is429(reply) == Has(reply, "status") /\ ~Has(reply, "exception") /\ reply.status = 429

ErrorPrefixes ==
    {"Error retrieving companies: ", "Error retrieving company information: ",
     "Error searching for company: ", "Error retrieving transactions: ",
     "Error retrieving investors: ", "Error retrieving acquisitions: ",
     "Error retrieving practice areas: ", "Error retrieving feeds: ",
     "Error retrieving business models: "}

\* the payload carries the rate-limit advisory: as the text of an error
\* string, or as a recorded result of a diagnosis
CarriesAdvisory(out) ==
    \/ out.kind = "text" /\ \E prefix \in ErrorPrefixes :
          out.text = prefix \o "Tracxn API rate limit exceeded. Please try again later."
    \/ /\ out.kind = "json" /\ Has(out.doc, "original_request")
       /\ \/ out.doc.original_request.result = [error |-> RateLimitText]
          \/ \E v \in 1..Len(out.doc.variations) :
                out.doc.variations[v].result = [error |-> RateLimitText]

\* after an HTTP 429 the invocation is over: no later call, and the payload
\* carries the advisory
StopsAt429 ==
    \A i \in 1..Len(replies) :
        Is429(replies[i]) =>
            /\ Len(calls) = i
            /\ pc = "done"
            /\ CarriesAdvisory(output)

\* C10 (as claimed): for every tool, an HTTP 429 gives the advisory text and
\* no further upstream call.
C10_AsClaimed == ViaCallTool => StopsAt429

\* C10 (amended): the same for every tool but diagnose_api_request and
\* debug_api_call.
C10_NoRetryAfter429 == (ViaCallTool /\ name \notin RawBodyTools) => StopsAt429

\* the second attempt of company_lookup was answered 429 and ended the lookup
C10_Witness ==
    /\ ViaCallTool /\ name = "company_lookup"
    /\ Len(replies) = 2 /\ Is429(replies[2])
    /\ pc = "done"
    /\ output = Text("Error retrieving company information: " \o RateLimitText)

\* the configuration error of the upstream client
ConfigurationError == [error |-> "TRACXN_ACCESS_TOKEN environment variable is not set"]

\* the payload of a finished invocation is the one its tool makes of the
\* configuration error
ReportsConfigurationError ==
    \/ output.kind = "text" /\ \E prefix \in ErrorPrefixes : output.text = prefix \o ConfigurationError.error
    \/ output.kind = "text" /\ entry = "funded_companies"
          /\ output.text = "Error retrieving Cybersecurity companies: " \o ConfigurationError.error
    \/ output.kind = "json" /\ name = "debug_api_call" /\ output.doc = ConfigurationError
    \/ /\ output.kind = "json" /\ name = "diagnose_api_request"
       /\ output.doc.original_request.result = ConfigurationError
       /\ \A v \in 1..Len(output.doc.variations) :
             output.doc.variations[v].result = ConfigurationError

\* C11: without an access token no request reaches the network, and every
\* invocation that called the upstream client ends with the configuration
\* error as its result.
C11_NoTokenNoRequest ==
    ~token =>
        /\ posts = <<>>
        /\ replies = <<>>
        /\ (pc = "done" /\ calls # <<>>) => ReportsConfigurationError

\* a search without a token called the client, sent nothing and returned the
\* configuration error
C11_Witness ==
    /\ ~token /\ pc = "done" /\ name = "search_companies"
    /\ Len(calls) = 1 /\ posts = <<>>
    /\ output = Text("Error retrieving companies: " \o ConfigurationError.error)

\* C12: for a tool name that is not registered, call_tool returns the
\* unknown-tool error text naming the tool and makes no upstream call.
C12_UnknownTool ==
    (ViaCallTool /\ name \notin ToolNames) =>
        /\ pc = "done"
        /\ output = Text("Error: Unknown tool '" \o name \o "'")
        /\ calls = <<>>
        /\ posts = <<>>

\* a name that differs from a registered one in letter case was rejected
C12_Witness ==
    /\ ViaCallTool /\ name = "Search_Companies"
    /\ pc = "done" /\ calls = <<>>
    /\ output = Text("Error: Unknown tool 'Search_Companies'")

\* C13 (as claimed): an invocation of a recognized tool that lacks an
\* argument its schema requires returns an error text and makes no upstream
\* call.
C13_MissingRequiredRejected ==
    (ViaCallTool /\ RequiredArguments(name) \ DOMAIN arguments # {}) =>
        /\ calls = <<>>
        /\ posts = <<>>
        /\ pc = "done"
        /\ output.kind = "text"

\* the last upstream answer is a success whose result list is absent or empty
EmptyResultReply ==
    /\ replies # <<>>
    /\ Has(replies[Len(replies)], "body")
    /\ Get(replies[Len(replies)].body, "result", <<>>) = <<>>

NoResultTexts ==
    {"No companies found matching the criteria", "No company found with domain ",
     "No transactions found matching the criteria", "No investors found matching the criteria",
     "No acquisitions found matching the criteria",
     "No practice areas found matching the criteria", "No feeds found matching the criteria",
     "No business models found matching the criteria"}

\* C14 (as claimed): after a successful upstream answer with no result item
\* the output is the no-results text of the tool, never a document.
C14_EmptyResultMessage ==
    (pc = "done" /\ name \notin RawBodyTools /\ EmptyResultReply) =>
        /\ output.kind = "text"
        /\ \/ output.text \in NoResultTexts
           \/ /\ name = "search_companies_by_name"
              /\ output.text = "No companies found matching name: " \o arguments.company_name

\* the last upstream answer is a success with at least one result item and
\* no error
ItemsReply ==
    /\ replies # <<>>
    /\ Has(replies[Len(replies)], "body")
    /\ Get(replies[Len(replies)].body, "result", <<>>) # <<>>
    /\ ~Has(replies[Len(replies)].body, "error")

\* C15 (as claimed): a company item in which a field is missing at any depth,
\* or present with a null value, is projected with the placeholder of that
\* field, and the projection does not raise.
C15_MissingFieldsDefaulted ==
    (/\ ViaCallTool /\ name \in {"search_companies", "funded_companies"}
     /\ pc = "done" /\ ItemsReply) =>
        LET fetched == replies[Len(replies)].body.result
        IN  /\ output.kind = "json"
            /\ Len(output.doc.items) = Len(fetched)
            /\ \A i \in 1..Len(fetched) :
                  LET location == IF Has(fetched[i], "location") /\ fetched[i].location # Null
                                  THEN fetched[i].location ELSE EmptyDict
                  IN  /\ output.doc.items[i].name = Get(fetched[i], "name", "Unknown")
                      /\ output.doc.items[i].domain = Get(fetched[i], "domain", "N/A")
                      /\ output.doc.items[i].location.country = Get(location, "country", "N/A")

\* C16 (as claimed): every invocation of call_tool ends with a text payload,
\* a document or an error string; no exception leaves the handler.
C16_AlwaysTextPayload ==
    (ViaCallTool /\ pc = "done") => output.kind \in {"text", "json"}

\* the sort of one upstream query follows the form of its endpoint family
SortFamily(post) ==
    /\ post.endpoint \in {"companies", "investors"} =>
          /\ ~Has(post.data, "sortField") /\ ~Has(post.data, "sortOrder")
          /\ Has(post.data, "sort") =>
                /\ Len(post.data.sort) = 1
                /\ Cardinality(DOMAIN post.data.sort[1]) = 1
                /\ \A field \in DOMAIN post.data.sort[1] :
                      post.data.sort[1][field] \in {"asc", "desc"}
    /\ post.endpoint \in {"transactions", "acquisitiontransactions"} =>
          /\ Has(post.data, "sortField") /\ Has(post.data, "sortOrder")
          /\ ~Has(post.data, "sort")
    /\ ~(Has(post.data, "sort") /\ (Has(post.data, "sortField") \/ Has(post.data, "sortOrder")))

\* C17 (as claimed): every upstream query follows the sort form of its
\* endpoint family, and none carries both forms.
C17_AsClaimed == \A i \in 1..Len(posts) : SortFamily(posts[i])

\* C17 (amended): the same for the queries the tools build, that is of every
\* tool but diagnose_api_request and debug_api_call.
C17_SortFamilies ==
    name \notin RawBodyTools => \A i \in 1..Len(posts) : SortFamily(posts[i])

\* a companies query was sent with a one-element sort list and no sortField
C17_Witness ==
    /\ ViaCallTool /\ name = "search_companies"
    /\ Has(arguments, "sort_by") /\ arguments.sort_by = "foundedYear"
    /\ Len(posts) = 1
    /\ Has(posts[1].data, "sort") /\ posts[1].data.sort = <<[foundedYear |-> "asc"]>>
    /\ ~Has(posts[1].data, "sortField")

\* the tools that build the filter of their query from optional arguments
FilterTools == PagedTools \cup {"funded_companies"}

NumericArguments ==
    {"min_funding", "max_funding", "min_amount", "max_amount", "min_investment_score"}

\* the argument is present and truthy
Supplied(args, arg) ==
    Has(args, arg) /\ (IF arg \in NumericArguments THEN args[arg] # 0 ELSE args[arg] # "")

\* the arguments a filter key is made of
FilterArguments(tool, key) ==
    CASE key = "feedName" ->
            IF tool = "search_investors" THEN {"portfolio_sector"} ELSE {"sector"}
      [] key = "country" -> {"country"}
      [] key = "city" -> {"city"}
      [] key = "foundedYear" -> {"founded_year"}
      [] key = "totalMoneyRaised" -> {"min_funding", "max_funding"}
      [] key = "transactionFundingRoundCategory" -> {"round_type"}
      [] key = "transactionFundingRoundDate" -> {"start_date", "end_date"}
      [] key = "transactionFundingRoundAmount" -> {"min_amount", "max_amount"}
      [] key = "transactionInvestor" -> {"investor_domain"}
      [] key = "investorDomainName" -> {"investor_name"}
      [] key = "investorType" -> {"investor_type"}
      [] key = "investorCountry" -> {"investor_country"}
      [] key = "tracxnInvestmentScore" -> {"min_investment_score"}
      [] key = "acquisitionType" -> {"acquisition_type"}
      [] key = "announcementDate" -> {"start_date", "end_date"}
      [] key = "acquirerListDomain" -> {"acquirer_domain"}
      [] key = "acquisitionAmount" -> {"min_amount", "max_amount"}
      [] key = "name" -> {"name"}
      [] key = "primaryGeography" -> {"primary_geography"}
      [] key = "id" -> {"id"}

\* the filter keys a tool always sends
AlwaysSent(tool) ==
    CASE tool = "search_companies" -> {"feedName"}
      [] tool = "funded_companies" -> {"feedName", "totalMoneyRaised"}
      [] OTHER -> {}

\* C18 (as claimed): an optional filter key is in the filter of a query only
\* when each argument it is made of is present and truthy, so that no key
\* and no range bound holds an empty placeholder.
C18_FiltersOnlyFromSupplied ==
    (ViaCallTool /\ name \in FilterTools) =>
        \A i \in 1..Len(posts) :
            Has(posts[i].data, "filter") =>
                \A key \in DOMAIN posts[i].data.filter \ AlwaysSent(name) :
                    \A arg \in FilterArguments(name, key) : Supplied(arguments, arg)

\* the sort a query asks for, as a list of {field: order}
SentSort(query) ==
    IF Has(query, "sort") THEN query.sort
    ELSE IF Has(query, "sortField") THEN <<(query.sortField :> query.sortOrder)>>
    ELSE <<>>

\* C19 (as claimed): the document made of a non-empty result holds
\* total_count, the filter of the query, the sort of the query (field and
\* order as sent) and a pagination block with from, size and has_more.
C19_EchoesQuery ==
    (/\ ViaCallTool /\ name \notin RawBodyTools
     /\ pc = "done" /\ output.kind = "json") =>
        LET query == posts[Len(posts)].data
            doc == output.doc
        IN  /\ Has(doc, "total_count")
            /\ Has(doc, "filters_applied")
            /\ doc.filters_applied = Get(query, "filter", EmptyDict)
            /\ Has(doc, "pagination")
            /\ DOMAIN doc.pagination = {"from", "size", "has_more"}
            /\ Has(doc, "sort")
            /\ doc.sort = SentSort(query)

\* the first upstream answer is an error whose text mentions the domain
FirstErrorMentionsDomain ==
    /\ replies # <<>>
    /\ \/ /\ Has(replies[1], "exception") /\ ~Has(replies[1], "status")
          /\ replies[1].exception = "Cannot resolve domain name"
       \/ /\ Has(replies[1], "status") /\ replies[1].status \notin {200, 429}
          /\ replies[1].text = "Invalid filter: domain must be a string"

\* C20 (as claimed): an invocation of any tool but diagnose_api_request
\* makes at most one upstream call, and one of diagnose_api_request at most
\* three.
C20_AsClaimed ==
    /\ name # "diagnose_api_request" => Len(calls) <= 1
    /\ name = "diagnose_api_request" => Len(calls) <= 3

\* C20 (amended): company_lookup makes at most two calls, the second only
\* after an error of the first that mentions the domain; diagnose_api_request
\* makes at most three; every other tool makes at most one.
C20_CallBudget ==
    /\ name \notin {"diagnose_api_request", "company_lookup"} => Len(calls) <= 1
    /\ name = "company_lookup" =>
          /\ Len(calls) <= 2
          /\ Len(calls) = 2 => FirstErrorMentionsDomain
    /\ name = "diagnose_api_request" => Len(calls) <= 3
    /\ Len(posts) <= Len(calls)

\* a diagnosis made its three calls: the request, its sortField form and its
\* domain form
C20_Witness ==
    /\ ViaCallTool /\ name = "diagnose_api_request"
    /\ pc = "done" /\ Len(calls) = 3 /\ Len(posts) = 3
    /\ Len(output.doc.variations) = 2

\* the result the upstream client is to make of one upstream answer
Classified(reply) ==
    IF Has(reply, "exception") THEN [error |-> "API call failed: " \o reply.exception]
    ELSE IF reply.status = 200 THEN reply.body
    ELSE IF reply.status = 429
        THEN [error |-> "Tracxn API rate limit exceeded. Please try again later."]
    ELSE [error |-> "API returned status code " \o ToString(reply.status) \o ": " \o reply.text]

\* the results a finished diagnosis recorded, in the order of its calls
RecordedResults ==
    <<output.doc.original_request.result>>
        \o [v \in 1..Len(output.doc.variations) |-> output.doc.variations[v].result]

\* C21: every call of the upstream client that reaches the network returns
\* the classification of the answer: the parsed body for HTTP 200, the
\* rate-limit result for 429, the status code and raw text for any other
\* status, the exception message for a network or parse failure; the
\* diagnosis, which records the results as they are, shows one per call.
C21_OutcomeClassified ==
    (token /\ ViaCallTool /\ name = "diagnose_api_request" /\ pc = "done" /\ calls # <<>>) =>
        /\ output.kind = "json"
        /\ Len(RecordedResults) = Len(replies)
        /\ \A i \in 1..Len(replies) : RecordedResults[i] = Classified(replies[i])

\* a diagnosis recorded an HTTP 400 with its status code and raw text
C21_Witness ==
    /\ token /\ ViaCallTool /\ name = "diagnose_api_request" /\ pc = "done"
    /\ Len(replies) = 1 /\ Has(replies[1], "status") /\ replies[1].status = 400
    /\ output.doc.original_request.result =
          [error |-> "API returned status code 400: Bad Request"]

\* the first upstream answer of the invocation is a failure
FirstAttemptFailed ==
    /\ replies # <<>>
    /\ Has(Classified(replies[1]), "error")

\* company_lookup ends with what it makes of its last upstream answer
ReflectsLastAttempt ==
    LET last == Classified(replies[Len(replies)])
    IN  IF Has(last, "error")
        THEN output = Text("Error retrieving company information: " \o last.error)
        ELSE IF Get(last, "result", <<>>) = <<>>
        THEN output.kind = "text" /\ output.text = "No company found with domain "
        ELSE output.kind \in {"json", "exception"}

\* the statement of C26; rejected is the condition of the second attempt
SecondAttempt(rejected) ==
    (token /\ ViaCallTool /\ name = "company_lookup" /\ replies # <<>>) =>
        /\ rejected => Len(calls) = 2
        /\ Len(calls) = 2 =>
              /\ FirstAttemptFailed
              /\ calls[1].data.filter.domain = [list |-> <<calls[1].data.filter.domain.list[1]>>]
              /\ calls[2].endpoint = "companies"
              /\ calls[2].data = [filter |-> [domain |-> [str |-> calls[1].data.filter.domain.list[1]]],
                                  size |-> 1]
        /\ pc = "done" => ReflectsLastAttempt

\* C26 (as claimed): whenever the first query of company_lookup fails, a
\* second one is made with the domain as a string; the second is made only
\* after a failed first, and the result is that of the last attempt.
C26_AsClaimed == SecondAttempt(FirstAttemptFailed)

\* C26 (amended): the same, the second attempt being made whenever the error
\* text of the first mentions the domain.
C26_SecondAttempt == SecondAttempt(FirstErrorMentionsDomain)

\* the list form was rejected, the string form found the company
C26_Witness ==
    /\ token /\ ViaCallTool /\ name = "company_lookup" /\ pc = "done"
    /\ Len(replies) = 2
    /\ Has(replies[1], "status") /\ replies[1].status = 400
    /\ Has(replies[2], "body") /\ Get(replies[2].body, "result", <<>>) # <<>>
    /\ Has(calls[2].data.filter.domain, "str")
    /\ output.kind = "json"

\* a domain input of the usual form: blanks, at most one scheme, at most
\* one www. label, the host, blanks
UsualDomainInputs ==
    {lead \o scheme \o www \o StrHost \o trail :
        lead \in {<<>>, StrSpace}, scheme \in {<<>>, StrHttp, StrHttps, StrHttpsUpper},
        www \in {<<>>, StrWww}, trail \in {<<>>, StrSpace}}

\* cleaning the cleaned domain changes nothing, and it starts with no
\* scheme and no www. label
CleanIsFixed(domain_clean) ==
    /\ DomainClean(domain_clean) = domain_clean
    /\ ~StartsWith(domain_clean, StrHttp)
    /\ ~StartsWith(domain_clean, StrHttps)
    /\ ~StartsWith(domain_clean, StrWww)

\* C28 (as claimed): for every domain input, the domain company_lookup
\* sends is a fixed point of the cleaning.
C28_AsClaimed ==
    (ViaCallTool /\ name = "company_lookup" /\ calls # <<>>) =>
        CleanIsFixed(calls[1].data.filter.domain.list[1])

\* C28 (amended): the same for the inputs of the usual form.
C28_CleanIdempotent ==
    (/\ ViaCallTool /\ name = "company_lookup" /\ calls # <<>>
     /\ arguments.domain \in UsualDomainInputs) =>
        CleanIsFixed(calls[1].data.filter.domain.list[1])

\* a blank and a www. label before the host were cleaned to the host,
\* which cleaning leaves as it is
C28_Witness ==
    /\ ViaCallTool /\ name = "company_lookup" /\ calls # <<>>
    /\ arguments.domain = StrSpace \o StrWww \o StrHost
    /\ calls[1].data.filter.domain.list[1] = StrHostLower
    /\ DomainClean(StrHostLower) = StrHostLower

\* the range filters of the three searches: tool, filter key, bounds
RangeFilters ==
    {[tool |-> "search_companies", key |-> "totalMoneyRaised",
      lo |-> "min_funding", hi |-> "max_funding"],
     [tool |-> "search_transactions", key |-> "transactionFundingRoundDate",
      lo |-> "start_date", hi |-> "end_date"],
     [tool |-> "search_transactions", key |-> "transactionFundingRoundAmount",
      lo |-> "min_amount", hi |-> "max_amount"],
     [tool |-> "search_acquisitions", key |-> "announcementDate",
      lo |-> "start_date", hi |-> "end_date"],
     [tool |-> "search_acquisitions", key |-> "acquisitionAmount",
      lo |-> "min_amount", hi |-> "max_amount"]}

\* C30: in search_companies, search_transactions and search_acquisitions a
\* range filter is in the filter of the query exactly when both of its
\* bounds are among the arguments, and then holds them as min and max; with
\* one bound alone it is left out and the query is made all the same.
C30_RangeNeedsBothBounds ==
    (ViaCallTool /\ name \in {"search_companies", "search_transactions", "search_acquisitions"}) =>
        /\ Len(calls) = 1
        /\ \A r \in RangeFilters :
              r.tool = name =>
                  LET filter == Get(calls[1].data, "filter", EmptyDict)
                  IN  /\ Has(filter, r.key) <=> (Has(arguments, r.lo) /\ Has(arguments, r.hi))
                      /\ Has(filter, r.key) =>
                            filter[r.key] = [min |-> arguments[r.lo], max |-> arguments[r.hi]]

\* a transactions search given a minimum amount alone was sent without the
\* amount range and answered with a document
C30_Witness ==
    /\ ViaCallTool /\ name = "search_transactions"
    /\ Has(arguments, "min_amount") /\ ~Has(arguments, "max_amount")
    /\ Len(posts) = 1
    /\ ~Has(Get(posts[1].data, "filter", EmptyDict), "transactionFundingRoundAmount")
    /\ pc = "done" /\ output.kind = "json"

\* the last upstream call of the invocation was answered with status 200
\* and a body that parsed
Answered200 ==
    /\ token /\ replies # <<>>
    /\ Has(replies[Len(replies)], "body")

\* the payload reports no failure: a document, or the no-results text
ReportsNoFailure ==
    \/ output.kind \in {"json", "exception"}
    \/ /\ output.kind = "text"
       /\ \/ output.text \in NoResultTexts
          \/ /\ name = "search_companies_by_name"
             /\ output.text = "No companies found matching name: " \o arguments.company_name

\* C29 (as claimed): an invocation that called upstream reports a failure
\* exactly when its last call was not answered with status 200; a body
\* answered with status 200 is never reported as an error, whatever its
\* top-level keys.
C29_FailureIffNot200 ==
    (ViaCallTool /\ name \notin RawBodyTools /\ pc = "done" /\ calls # <<>>) =>
        (Answered200 <=> ReportsNoFailure)

\* an invocation of diagnose_api_request that called upstream
Diagnosing == ViaCallTool /\ name = "diagnose_api_request" /\ calls # <<>>

\* C22 (as claimed): diagnose_api_request tries its variations exactly when
\* the original request was not answered with a success: after a success it
\* has made one call and its list of variations is empty, after a failure it
\* has made one more call for each variation the body gives rise to.
C22_VariationsIffError ==
    (token /\ Diagnosing /\ pc = "done") =>
        LET succeeded == Has(replies[1], "body")
            derived == DiagnoseVariations(arguments.request_data)
        IN  /\ Len(output.doc.variations) = Len(calls) - 1
            /\ succeeded => Len(calls) = 1
            /\ ~succeeded => Len(calls) = 1 + Len(derived)

\* the body asks for a sort by a list and has no sortField
HasSortList(body) == Has(body, "sort") /\ ~Has(body, "sortField")

\* the body filters on the domain
HasDomainFilter(body) == Has(body, "filter") /\ Has(body.filter, "domain")

\* the body with its sort list replaced by sortField and sortOrder
SortFieldForm(body) ==
    LET field == IF body.sort = <<>> THEN "defaultSortField"
                 ELSE CHOOSE k \in DOMAIN body.sort[1] : TRUE
        order == IF body.sort = <<>> THEN "desc" ELSE body.sort[1][field]
        rest == [k \in DOMAIN body \ {"sort"} |-> body[k]]
    IN  rest @@ [sortField |-> field, sortOrder |-> order]

\* the body with filter.domain in its other form
SwappedDomainForm(body) ==
    LET domain == body.filter.domain
        other == IF Has(domain, "str") THEN [list |-> <<domain.str>>]
                 ELSE IF domain.list = <<>> THEN [str |-> <<>>]
                 ELSE [str |-> domain.list[1]]
    IN  [body EXCEPT !.filter = [@ EXCEPT !.domain = other]]

\* the attempts of a diagnosis of the body, in order
Attempts(body) ==
    <<[description |-> "", data |-> body]>>
        \o (IF HasSortList(body)
            THEN <<[description |-> "Converted 'sort' array to 'sortField' and 'sortOrder'",
                    data |-> SortFieldForm(body)]>>
            ELSE <<>>)
        \o (IF HasDomainFilter(body)
            THEN <<[description |->
                        IF Has(body.filter.domain, "list")
                        THEN "Converted 'domain' from list to string"
                        ELSE "Converted 'domain' from string to list",
                    data |-> SwappedDomainForm(body)]>>
            ELSE <<>>)

\* C27: the calls of diagnose_api_request are the attempts of its body in
\* order, each once: the body as given, then its sortField form if it has a
\* sort list and no sortField, then its swapped-domain form if it filters on
\* the domain; once a variation is tried all of them are; the report holds
\* one entry for each variation tried, in that order, with the data sent
\* and the result the upstream client made of its answer, errors included.
C27_AttemptsInOrder ==
    Diagnosing =>
        LET attempts == Attempts(arguments.request_data)
        IN  /\ Len(calls) <= Len(attempts)
            /\ \A i \in 1..Len(calls) :
                  /\ calls[i].endpoint = arguments.endpoint
                  /\ calls[i].data = attempts[i].data
            /\ pc = "done" =>
                  /\ output.kind = "json"
                  /\ Len(calls) \in {1, Len(attempts)}
                  /\ Len(output.doc.variations) = Len(calls) - 1
                  /\ \A v \in 1..Len(output.doc.variations) :
                        /\ output.doc.variations[v].description = attempts[v + 1].description
                        /\ output.doc.variations[v].data = attempts[v + 1].data
                        /\ token => output.doc.variations[v].result = Classified(replies[v + 1])

\* both variations of a body were tried in order, the first was answered
\* with HTTP 400 and recorded with that error
C27_Witness ==
    /\ token /\ Diagnosing /\ pc = "done"
    /\ Len(calls) = 3 /\ Len(replies) = 3
    /\ Has(calls[2].data, "sortField") /\ Has(calls[3].data, "sort")
    /\ Has(replies[2], "status") /\ replies[2].status = 400
    /\ output.doc.variations[1].result = Classified(replies[2])
    /\ output.doc.variations[2].description = "Converted 'domain' from list to string"

\* the statement of C23; shared are the keys under which a variation may
\* hold objects of the request
RequestUntouched(shared) ==
    Diagnosing =>
        /\ frame.request_data = arguments.request_data
        /\ \A v \in 1..Len(frame.variations) :
              /\ frame.variations[v].shares \subseteq shared
              /\ frame.variations[v].writes \cap frame.variations[v].shares = {}
        /\ pc = "done" =>
              /\ output.doc.original_request.data = arguments.request_data
              /\ Len(output.doc.variations) = Len(frame.variations)

\* C23 (as claimed): the request of the caller is after the call what it
\* was before it, the report holds it unmodified, and no variation holds an
\* object of the request.
C23_AsClaimed == RequestUntouched({})

\* C23 (amended): the same, except that the sortField variation holds the
\* filter object of the request, into which it does not assign; a variation
\* assigns only into objects of its own.
C23_RequestUntouched == RequestUntouched({"filter"})

\* a body with a sort list and a domain filter went through both variations
\* and is reported as it was given
C23_Witness ==
    /\ Diagnosing /\ pc = "done"
    /\ HasSortList(arguments.request_data) /\ HasDomainFilter(arguments.request_data)
    /\ Len(frame.variations) = 2
    /\ frame.variations[1].shares = {"filter"}
    /\ frame.variations[2].shares = {}
    /\ frame.variations[2].data.filter # arguments.request_data.filter
    /\ output.doc.original_request.data = arguments.request_data

\* the tools that return projected companies
CompanyTools == {"search_companies", "funded_companies", "company_lookup"}

\* the payload a finished invocation returns in a process with the seed
PayloadUnder(seed) ==
    Resume(frame, tracxn_api_call(token, replies[Len(replies)]), seed).output

\* C24 (as claimed): the payload made of an upstream result and a query is
\* the same in every run: it does not depend on the process that makes it,
\* the order of the business-model list included.
C24_Deterministic ==
    (token /\ ViaCallTool /\ name \in CompanyTools /\ pc = "done" /\ replies # <<>>) =>
        \A seed \in HashSeeds : output = PayloadUnder(seed)

\* what an invocation of search_companies_by_name or of an unknown tool
\* does when it runs alone, from its arguments and the upstream answers it got
AsAlone(inv) ==
    /\ inv.entry = "none" => inv = NotStarted
    /\ (inv.entry = "call_tool" /\ inv.name \in UnknownToolNames) =>
          /\ inv.pc = "done" /\ inv.calls = <<>> /\ inv.posts = <<>>
          /\ inv.output = Text("Error: Unknown tool '" \o inv.name \o "'")
    /\ (inv.name = "search_companies_by_name" /\ Get(inv.arguments, "company_name", "") = "") =>
          /\ inv.pc = "done" /\ inv.calls = <<>> /\ inv.posts = <<>>
          /\ inv.output = Text("Error: company_name is required")
    /\ (inv.name = "search_companies_by_name" /\ Get(inv.arguments, "company_name", "") # "") =>
          LET query == [endpoint |-> "companies/search",
                        data |-> [filter |-> [companyName |-> inv.arguments.company_name]]]
              result == IF token THEN Classified(inv.replies[1])
                        ELSE [error |-> "TRACXN_ACCESS_TOKEN environment variable is not set"]
          IN  /\ inv.calls = <<query>>
              /\ inv.posts = IF token /\ inv.pc = "done" THEN <<query>> ELSE <<>>
              /\ Len(inv.replies) = Len(inv.posts)
              /\ inv.pc = "done" =>
                    inv.output = search_companies_by_name(inv.arguments.company_name, result)

\* C25: of two invocations interleaved at their upstream calls in any way,
\* each issues the queries and returns the payload it would alone, given
\* the upstream answers it received.
C25_Independent == AsAlone(Running) /\ AsAlone(parked)

\* two searches were in flight together and each returned the payload for
\* its own name and its own upstream answer
C25_Witness ==
    /\ token /\ pc = "done" /\ parked.pc = "done"
    /\ name = "search_companies_by_name" /\ parked.name = "search_companies_by_name"
    /\ arguments # parked.arguments
    /\ Len(replies) = 1 /\ Len(parked.replies) = 1
    /\ replies[1] # parked.replies[1]
    /\ Has(replies[1], "status") /\ replies[1].status = 429
    /\ output.kind = "text" /\ parked.output.kind = "json"

====
